---- MODULE Spec2Model ----
(***************************************************************************)
(* Model of the two programs of the repository:                            *)
(*   scripts/split_portrait_sheet.py  - main(): cuts a portrait sheet into *)
(*       grid tiles, drops empty and near-duplicate tiles, names and       *)
(*       writes the rest (specification Spec);                             *)
(*   services/ai/app.py - narrate(): the text service with its templated   *)
(*       fallbacks (specification NarrateSpec).                            *)
(* The image library is outside the repository.  A tile is modelled by     *)
(* what the script reads from it: the grayscale mean and standard          *)
(* deviation ImageStat reports and the fingerprint the dhash loop yields.  *)
(***************************************************************************)
EXTENDS Integers, Sequences, FiniteSets, TLC

(***************************************************************************)
(* Bounds of the model.                                                    *)
(***************************************************************************)
MaxRows == 2        \* rows of the explored grids
MaxCols == 2        \* columns of the explored grids
HashBits == 2       \* width of a fingerprint in the model (64 in the script)
MaxThreshold == 1   \* largest --dedupe-hamming explored with dedupe enabled
MaxSide == 6        \* largest sheet width/height of the geometry inputs
MaxMargin == 1      \* largest --margin of the geometry inputs
MaxGap == 2         \* largest --gap of the geometry inputs
TileSide == 2       \* cell side of the sheets built to fit their grid

(***************************************************************************)
(* Program constants.                                                      *)
(***************************************************************************)
DefaultMargin == 12
DefaultGap == 14
DefaultEmptyThreshold == 2
DefaultDedupeHamming == 5
EmptyMeanCutoff == 40
DefaultPrefix == "portrait"

None == "<None>"    \* Python's None where a name is expected

OFFICER_PRESET_4X6 ==
    (<<1, 1>> :> "dong_zhuo") @@ (<<1, 2>> :> "lu_bu") @@ (<<1, 3>> :> "li_ru") @@
    (<<1, 4>> :> "hua_xiong") @@ (<<1, 5>> :> "cao_cao") @@ (<<1, 6>> :> "xun_yu") @@
    (<<2, 1>> :> "xiahou_dun") @@ (<<2, 2>> :> "xiahou_yuan") @@ (<<2, 3>> :> "zhao_yun") @@
    (<<2, 4>> :> "liu_bei") @@ (<<2, 5>> :> "guan_yu") @@ (<<2, 6>> :> None) @@
    (<<3, 1>> :> "zhang_fei") @@ (<<3, 2>> :> "sun_jian") @@ (<<3, 3>> :> "huang_gai") @@
    (<<3, 4>> :> "cheng_pu") @@ (<<3, 5>> :> "yuan_shao") @@ (<<3, 6>> :> None) @@
    (<<4, 1>> :> "yan_liang") @@ (<<4, 2>> :> "wen_chou") @@ (<<4, 3>> :> "yuan_shu") @@
    (<<4, 4>> :> "ji_ling") @@ (<<4, 5>> :> "diaochan") @@ (<<4, 6>> :> "player_default")

(***************************************************************************)
(* Arithmetic as Python does it.                                           *)
(***************************************************************************)
\* a // b for b > 0: floor division, also for a negative a
FloorDiv(a, b) == IF a >= 0 THEN a \div b ELSE -((-a + b - 1) \div b)

\* a ^ b on non-negative integers, bit by bit
RECURSIVE Xor(_, _)
Xor(a, b) ==
    IF a = 0 /\ b = 0 THEN 0
    ELSE (IF (a % 2) = (b % 2) THEN 0 ELSE 1) + 2 * Xor(a \div 2, b \div 2)

\* int.bit_count()
RECURSIVE BitCount(_)
BitCount(n) == IF n = 0 THEN 0 ELSE (n % 2) + BitCount(n \div 2)

hamming_distance(a, b) == BitCount(Xor(a, b))

\* str(n) for n >= 0
Digit == <<"0", "1", "2", "3", "4", "5", "6", "7", "8", "9">>
RECURSIVE Decimal(_)
Decimal(n) == IF n < 10 THEN Digit[n + 1] ELSE Decimal(n \div 10) \o Digit[(n % 10) + 1]

\* f"{idx:02d}": decimal, zero-padded to at least two digits
Format02d(idx) == IF idx < 10 THEN "0" \o Decimal(idx) ELSE Decimal(idx)

(***************************************************************************)
(* Tiles.                                                                  *)
(***************************************************************************)
Hashes == 0 .. (2 ^ HashBits - 1)
MaxHash == 2 ^ HashBits - 1

Black == [mean |-> 0, stddev |-> 0, hash |-> 0]          \* uniform colour 0
FlatBright == [mean |-> 200, stddev |-> 0, hash |-> 0]   \* uniform colour 200
Textured(h) == [mean |-> 100, stddev |-> 50, hash |-> h] \* artwork with fingerprint h
NoPixels == [mean |-> -1, stddev |-> -1, hash |-> 0]     \* a crop of zero area

TileKinds == {Black, FlatBright} \cup {Textured(h) : h \in Hashes}

\* the sheets explored: at most two different tile images on a sheet
Palettes == {{a, b} : a, b \in TileKinds}
PresetPalette == {Black, Textured(MaxHash)}

is_empty_tile(t, threshold) == (t.stddev < threshold) /\ (t.mean < EmptyMeanCutoff)

dhash(t) == t.hash

VARIABLES
    args,               \* the parsed command line
    img,                \* the sheet: the tile images its cells can hold
    width, height,      \* img.size
    cell_w, cell_h,
    written, kept_hashes, skipped_empty, skipped_duplicate, skipped_by_preset,
    used_names,
    r, c,               \* the loop's position, 0-based
    mapped_name, tile, tile_hash, filename,
    pc,                 \* where main() stands
    files,              \* the files main() has put in out_dir: name -> image
    crops,              \* number of img.crop calls made
    visited,            \* the cells the loop has entered, in order
    records,            \* one output record per written tile
    outcome,            \* what became of the cell entered last
    stdout,             \* the summary printed
    \* services/ai/app.py
    OPENAI_API_KEY, OPENAI_BASE_URL,
    payload,            \* the NarrativeInput of the request
    npc,                \* where narrate() stands
    client,             \* the keyword arguments the client was built with
    messages,           \* the system and user prompt handed to the backing call
    response            \* what narrate() returned

svars == <<args, img, width, height, cell_w, cell_h, written, kept_hashes, skipped_empty,
          skipped_duplicate, skipped_by_preset, used_names, r, c, mapped_name, tile,
          tile_hash, filename, pc, files, crops, visited, records, outcome, stdout>>

nvars == <<OPENAI_API_KEY, OPENAI_BASE_URL, payload, npc, client, messages, response>>

vars == <<svars, nvars>>

config == <<args, img, width, height>>

(***************************************************************************)
(* Inputs.  The grids have rows >= 1 and cols >= 1 (with 0 the division of *)
(* lines 88-89 raises before the loop) and the thresholds are >= 0.        *)
(***************************************************************************)
Args(rows, cols, margin, gap, no_dedupe, dedupe_hamming, preset) ==
    [rows |-> rows, cols |-> cols, margin |-> margin, gap |-> gap,
     prefix |-> DefaultPrefix, empty_threshold |-> DefaultEmptyThreshold,
     no_dedupe |-> no_dedupe, dedupe_hamming |-> dedupe_hamming, preset |-> preset]

\* the side of a sheet whose n cells of TileSide pixels fit exactly
FitSide(n, margin, gap) == 2 * margin + (n - 1) * gap + n * TileSide

DedupeSettings ==
    {<<TRUE, DefaultDedupeHamming>>} \cup {<<FALSE, t>> : t \in 0 .. MaxThreshold}

Locals ==
    /\ cell_w = 0 /\ cell_h = 0
    /\ written = 0 /\ kept_hashes = <<>> /\ skipped_empty = 0
    /\ skipped_duplicate = 0 /\ skipped_by_preset = 0
    /\ used_names = {}
    /\ r = 0 /\ c = 0
    /\ mapped_name = None /\ tile = NoPixels /\ tile_hash = 0 /\ filename = None
    /\ pc = "start"
    /\ files = {} /\ crops = 0 /\ visited = <<>> /\ records = <<>>
    /\ outcome = "none" /\ stdout = <<>>

\* small grids, every dedupe and preset setting, every two-image sheet
InitPipeline ==
    /\ \E rows \in 1 .. MaxRows, cols \in 1 .. MaxCols, d \in DedupeSettings,
          preset \in {"none", "officers_4x6"} :
          /\ args = Args(rows, cols, DefaultMargin, DefaultGap, d[1], d[2], preset)
          /\ width = FitSide(cols, DefaultMargin, DefaultGap)
          /\ height = FitSide(rows, DefaultMargin, DefaultGap)
    /\ img \in Palettes

\* grids that leave the officer table and reach its excluded slot
InitPreset ==
    /\ \E g \in {<<2, 7>>, <<5, 1>>}, no_dedupe \in BOOLEAN :
          /\ args = Args(g[1], g[2], DefaultMargin, DefaultGap, no_dedupe, 0, "officers_4x6")
          /\ width = FitSide(g[2], DefaultMargin, DefaultGap)
          /\ height = FitSide(g[1], DefaultMargin, DefaultGap)
    /\ img = PresetPalette

\* every small sheet size, margin and gap, on a blank sheet
InitGeometry ==
    /\ \E rows \in 1 .. MaxRows, cols \in 1 .. MaxCols,
          margin \in -1 .. MaxMargin, gap \in 0 .. MaxGap :
          args = Args(rows, cols, margin, gap, FALSE, 0, "none")
    /\ width \in 1 .. MaxSide
    /\ height \in 1 .. MaxSide
    /\ img = {Black}

(***************************************************************************)
(* services/ai/app.py: strings and inputs.  The Korean literals of the     *)
(* source are written as ASCII glosses between angle brackets.             *)
(***************************************************************************)
LoreLimit == 6
LoreLineMax == 500

\* str.strip() for blanks
RECURSIVE LStrip(_)
LStrip(str) ==
    IF Len(str) > 0 /\ SubSeq(str, 1, 1) = " " THEN LStrip(SubSeq(str, 2, Len(str))) ELSE str
RECURSIVE RStrip(_)
RStrip(str) ==
    IF Len(str) > 0 /\ SubSeq(str, Len(str), Len(str)) = " "
    THEN RStrip(SubSeq(str, 1, Len(str) - 1)) ELSE str
Strip(str) == RStrip(LStrip(str))

StartsWith(str, prefix) ==
    Len(str) >= Len(prefix) /\ SubSeq(str, 1, Len(prefix)) = prefix

\* sep.join(parts)
RECURSIVE Join(_, _)
Join(parts, sep) ==
    IF Len(parts) = 0 THEN ""
    ELSE IF Len(parts) = 1 THEN parts[1]
    ELSE parts[1] \o sep \o Join(Tail(parts), sep)

\* x or default, for an optional string
OrElse(x, default) == IF x = None \/ x = "" THEN default ELSE x

DefaultForbid ==
    <<"<hasa>", "<naerini>", "<naerida>", "<chungseong-eul maengse>", "<chungseong maengse>",
      "<jugun>", "<sinha>", "<gunjukkeseo>", "<myeonghayeo>", "<chaekbong>", "<bongjak>",
      "<hadal>", "<jochik>", "<eomyeong>", "<hwangje>">>

LoreItems ==
    {<<>>,
     <<[title |-> "Red Cliffs", body |-> " fire attack "]>>,
     <<[title |-> None, body |-> "east wind"], [title |-> " ", body |-> None]>>}

Payloads ==
    [actor : {"Guan Yu"},
     action : {"pledge_liu_bei", " gift ", ""},
     result : {"trust +3", ""},
     mood : {"epic"},
     actor_role : {"officer"},
     target : {None, "Liu Bei"},
     forbid_phrases : {<<>>, <<"lord", "vassal">>},
     objective : {None},
     time : {None},
     location : {None, "Xuchang"},
     lore : LoreItems]

NoResponse == [text |-> None, provider |-> None]

\* the service before a request
NarrateIdle ==
    /\ OPENAI_API_KEY = "" /\ OPENAI_BASE_URL = ""
    /\ payload = CHOOSE q \in Payloads : q.action = "" /\ q.result = "" /\ q.target = None
                                          /\ q.forbid_phrases = <<>> /\ q.location = None
                                          /\ q.lore = <<>>
    /\ npc = "idle"
    /\ client = <<>> /\ messages = <<>> /\ response = NoResponse

Init == Locals /\ NarrateIdle /\ (InitPipeline \/ InitPreset \/ InitGeometry)

(***************************************************************************)
(* main()                                                                  *)
(***************************************************************************)
\* mutant: the gaps between the cells are not subtracted
CellSizeIgnoresGap(extent, margin, gap, n) == FloorDiv(extent - (2 * margin), n)

CellSize(extent, margin, gap, n) == FloorDiv(extent - (2 * margin) - ((n - 1) * gap), n)

\* lines 85-98: sizes of a cell, the counters and collections
Geometry ==
    /\ pc = "start"
    /\ cell_w' = CellSize(width, args.margin, args.gap, args.cols)
    /\ cell_h' = CellSize(height, args.margin, args.gap, args.rows)
    /\ pc' = "loop"
    /\ UNCHANGED <<nvars, config, written, kept_hashes, skipped_empty, skipped_duplicate,
                   skipped_by_preset, used_names, r, c, mapped_name, tile, tile_hash,
                   filename, files, crops, visited, records, outcome, stdout>>

\* mutant: the loop ends with the first cell of the last row
AfterCellRowOnly == IF r + 1 = args.rows THEN "summary" ELSE "loop"

\* the pc after the cell (r, c): the next iteration, or the summary
AfterCell == IF r + 1 = args.rows /\ c + 1 = args.cols THEN "summary" ELSE "loop"
NextR == IF c + 1 < args.cols THEN r ELSE r + 1
NextC == IF c + 1 < args.cols THEN c + 1 ELSE 0

\* `continue`, or the end of the loop body
Continue == pc' = AfterCell /\ r' = NextR /\ c' = NextC

CropX(cc) == args.margin + cc * (cell_w + args.gap)
CropY(rr) == args.margin + rr * (cell_h + args.gap)
\* the box handed to img.crop: left, upper, right, lower
CropBox(rr, cc) == <<CropX(cc), CropY(rr), CropX(cc) + cell_w, CropY(rr) + cell_h>>

\* mutant: the exclusion marker is not tested, only absence from the table
PresetSkipsAbsentOnly(row, col) == <<row, col>> \notin DOMAIN OFFICER_PRESET_4X6

PresetSkips(row, col) ==
    \/ <<row, col>> \notin DOMAIN OFFICER_PRESET_4X6
    \/ OFFICER_PRESET_4X6[<<row, col>>] = None

\* lines 101-114: the preset lookup and the crop
BeginCell ==
    /\ pc = "loop"
    /\ visited' = Append(visited, <<r, c>>)
    /\ IF args.preset = "officers_4x6" /\ PresetSkips(r + 1, c + 1)
       THEN /\ skipped_by_preset' = skipped_by_preset + 1
            /\ mapped_name' = None
            /\ outcome' = IF <<r + 1, c + 1>> \in DOMAIN OFFICER_PRESET_4X6
                          THEN "excluded" ELSE "absent"
            /\ Continue
            /\ UNCHANGED <<tile, crops>>
       ELSE /\ mapped_name' = IF args.preset = "officers_4x6"
                              THEN OFFICER_PRESET_4X6[<<r + 1, c + 1>>] ELSE None
            /\ crops' = crops + 1
            /\ IF cell_w > 0 /\ cell_h > 0
               THEN tile' \in img /\ pc' = "tile" /\ outcome' = "pending"
               \* a box of no area: the library raises, or returns an image without pixels
               ELSE \/ pc' = "failed" /\ outcome' = "crop_error" /\ UNCHANGED tile
                    \/ pc' = "tile" /\ outcome' = "pending" /\ tile' = NoPixels
            /\ UNCHANGED <<r, c, skipped_by_preset>>
    /\ UNCHANGED <<nvars, config, cell_w, cell_h, written, kept_hashes, skipped_empty,
                   skipped_duplicate, used_names, tile_hash, filename, files, records,
                   stdout>>

\* mutant: the boundary is exclusive
IsDuplicateStrict(h, kept) ==
    /\ ~args.no_dedupe
    /\ \E i \in 1 .. Len(kept) : hamming_distance(h, kept[i]) < args.dedupe_hamming

\* mutant: --no-dedupe is not consulted
IsDuplicateAlways(h, kept) ==
    \E i \in 1 .. Len(kept) : hamming_distance(h, kept[i]) <= args.dedupe_hamming

\* mutant: only the tile kept last is compared
IsDuplicateOfLast(h, kept) ==
    /\ ~args.no_dedupe
    /\ Len(kept) > 0
    /\ hamming_distance(h, kept[Len(kept)]) <= args.dedupe_hamming

\* line 119: the duplicate test
IsDuplicate(h, kept) ==
    /\ ~args.no_dedupe
    /\ \E i \in 1 .. Len(kept) : hamming_distance(h, kept[i]) <= args.dedupe_hamming

FallbackIndex(rr, cc) == (rr * args.cols) + cc + 1

ResolveName(mapped, rr, cc) ==
    IF mapped # None /\ mapped # ""
    THEN mapped
    ELSE args.prefix \o "_" \o Format02d(FallbackIndex(rr, cc))

\* lines 115-129: emptiness, fingerprint, duplicate check, name and name collision
Examine ==
    /\ pc = "tile"
    /\ IF tile = NoPixels
       THEN \* the statistics of an image without pixels divide by zero
            /\ pc' = "failed"
            /\ outcome' = "stat_error"
            /\ UNCHANGED <<skipped_empty, skipped_duplicate, skipped_by_preset, tile_hash,
                           filename, r, c>>
       ELSE IF is_empty_tile(tile, args.empty_threshold)
       THEN /\ skipped_empty' = skipped_empty + 1
            /\ outcome' = "empty"
            /\ Continue
            /\ UNCHANGED <<skipped_duplicate, skipped_by_preset, tile_hash, filename>>
       ELSE /\ tile_hash' = dhash(tile)
            /\ IF IsDuplicate(dhash(tile), kept_hashes)
               THEN /\ skipped_duplicate' = skipped_duplicate + 1
                    /\ outcome' = "duplicate"
                    /\ Continue
                    /\ UNCHANGED <<skipped_empty, skipped_by_preset, filename>>
               ELSE /\ filename' = ResolveName(mapped_name, r, c)
                    /\ IF ResolveName(mapped_name, r, c) \in used_names
                       THEN /\ skipped_by_preset' = skipped_by_preset + 1
                            /\ outcome' = "collision"
                            /\ Continue
                       ELSE /\ pc' = "save"
                            /\ UNCHANGED <<skipped_by_preset, outcome, r, c>>
                    /\ UNCHANGED <<skipped_empty, skipped_duplicate>>
    /\ UNCHANGED <<nvars, config, cell_w, cell_h, written, kept_hashes, used_names, mapped_name,
                   tile, files, crops, visited, records, stdout>>

\* out_dir after tile.save(out): an existing file of that name is replaced
SaveFile(fs, out, image) ==
    {f \in fs : f.name # out} \cup {[name |-> out, image |-> image]}

\* mutant: the path is built from the prefix, not from the resolved name
OutPathFromPrefix(name) == args.prefix \o ".png"

\* args.out_dir / f"{filename}.png", as the name inside out_dir
OutPath(name) == name \o ".png"

\* mutant: the name is added before the write is attempted
UsedBeforeSave(saved, used, name) == used \cup {name}

\* used_names once tile.save(out) has returned (saved) or raised: the name is
\* added on line 133, which a save that raises never reaches
UsedAfterSave(saved, used, name) == IF saved THEN used \cup {name} ELSE used

\* lines 130-134: the write, then the bookkeeping; a failed write ends the run
Save ==
    /\ pc = "save"
    /\ \/ /\ pc' = "failed"
          /\ outcome' = "save_error"
          /\ used_names' = UsedAfterSave(FALSE, used_names, filename)
          /\ UNCHANGED <<files, kept_hashes, written, records, r, c>>
       \/ /\ files' = SaveFile(files, OutPath(filename), tile)
          /\ kept_hashes' = Append(kept_hashes, tile_hash)
          /\ used_names' = UsedAfterSave(TRUE, used_names, filename)
          /\ written' = written + 1
          /\ records' = Append(records, [row |-> r + 1, col |-> c + 1,
                                          filename |-> filename, hash |-> tile_hash])
          /\ outcome' = "written"
          /\ Continue
    /\ UNCHANGED <<nvars, config, cell_w, cell_h, skipped_empty, skipped_duplicate,
                   skipped_by_preset, mapped_name, tile, tile_hash, filename, crops,
                   visited, stdout>>

\* lines 136-141: the summary
Summary ==
    /\ pc = "summary"
    /\ stdout' = <<written, <<cell_w, cell_h>>, skipped_empty, skipped_duplicate,
                   skipped_by_preset>>
    /\ pc' = "done"
    /\ UNCHANGED <<nvars, config, cell_w, cell_h, written, kept_hashes, skipped_empty,
                   skipped_duplicate, skipped_by_preset, used_names, r, c, mapped_name,
                   tile, tile_hash, filename, files, crops, visited, records, outcome>>

Next == Geometry \/ BeginCell \/ Examine \/ Save \/ Summary

Spec == Init /\ [][Next]_vars


(***************************************************************************)
(* narrate()                                                               *)
(***************************************************************************)
\* lines 40-43
TemplateText(q) ==
    q.actor \o "<'s action>(" \o q.action \o ") <result>: " \o q.result \o ". "
        \o "<the chronicler recorded it as a solemn report of victory.>"

\* lines 116-119
FallbackText(q) ==
    q.actor \o "<'s action>(" \o q.action \o ") <result>: " \o q.result \o ". "
        \o "<the chronicler briefly recorded it as a feat of the troubled age.>"

\* lines 55-76
SystemPrompt(q) ==
    LET forbid == IF q.forbid_phrases = <<>> THEN DefaultForbid ELSE q.forbid_phrases
        is_pledge == StartsWith(Strip(q.action), "pledge")
    IN  "<officer point of view; rules>\n<forbidden>: " \o Join(forbid, ", ") \o "\n<style rules>\n"
            \o (IF is_pledge THEN "<pledge is joining, no praise of a lord>\n" ELSE "")

\* lines 93-99: one lore line per item that has a title or a body
LoreLine(it) ==
    LET title == Strip(OrElse(it.title, ""))
        body == Strip(OrElse(it.body, ""))
        line == IF title # "" THEN "- " \o title \o ": " \o body ELSE "- " \o body
    IN  IF title = "" /\ body = "" THEN <<>>
        ELSE <<SubSeq(line, 1, IF Len(line) < LoreLineMax THEN Len(line) ELSE LoreLineMax)>>

RECURSIVE LoreLines(_)
LoreLines(items) ==
    IF Len(items) = 0 THEN <<>> ELSE LoreLine(Head(items)) \o LoreLines(Tail(items))

\* lines 78-103
UserPrompt(q) ==
    LET lore_lines ==
            LoreLines(SubSeq(q.lore, 1, IF Len(q.lore) < LoreLimit THEN Len(q.lore) ELSE LoreLimit))
    IN  "<actor>: " \o q.actor \o " (role=" \o q.actor_role \o ")\n"
            \o "<target>: " \o OrElse(q.target, "-") \o "\n"
            \o "<location>: " \o OrElse(q.location, "-") \o "\n"
            \o "<time>: " \o OrElse(q.time, "-") \o "\n"
            \o "<objective>: " \o OrElse(q.objective, "-") \o "\n"
            \o "<action>: " \o q.action \o "\n"
            \o "<result>: " \o q.result \o "\n"
            \o "<mood>: " \o q.mood \o "\n"
            \o "<write one or two sentences>"
            \o (IF Len(lore_lines) > 0
                THEN "\n\n<world knowledge>:\n" \o Join(lore_lines, "\n") ELSE "")

\* lines 38-44: the request arrives; without a key the template is returned
Request ==
    /\ npc = "request"
    /\ IF OPENAI_API_KEY = ""
       THEN /\ response' = [text |-> TemplateText(payload), provider |-> "template"]
            /\ npc' = "returned"
       ELSE /\ npc' = "import"
            /\ UNCHANGED response
    /\ UNCHANGED <<svars, OPENAI_API_KEY, OPENAI_BASE_URL, payload, client, messages>>

\* line 46: from openai import OpenAI, outside any try
Import ==
    /\ npc = "import"
    /\ \E importable \in BOOLEAN : npc' = IF importable THEN "construct" ELSE "raised"
    /\ UNCHANGED <<svars, OPENAI_API_KEY, OPENAI_BASE_URL, payload, client, messages, response>>

\* lines 48-51: the client is constructed, outside any try
Construct ==
    /\ npc = "construct"
    /\ \E constructible \in BOOLEAN :
          IF constructible
          THEN /\ client' = IF OPENAI_BASE_URL # ""
                            THEN <<OPENAI_API_KEY, OPENAI_BASE_URL>> ELSE <<OPENAI_API_KEY>>
               /\ npc' = "prompt"
          ELSE /\ npc' = "raised"
               /\ UNCHANGED client
    /\ UNCHANGED <<svars, OPENAI_API_KEY, OPENAI_BASE_URL, payload, messages, response>>

\* lines 55-103: the prompts
Prompt ==
    /\ npc = "prompt"
    /\ messages' = <<[role |-> "system", content |-> SystemPrompt(payload)],
                     [role |-> "user", content |-> UserPrompt(payload)]>>
    /\ npc' = "call"
    /\ UNCHANGED <<svars, OPENAI_API_KEY, OPENAI_BASE_URL, payload, client, response>>

\* lines 104-120: the backing call inside try/except
Call ==
    /\ npc = "call"
    /\ \E reply \in {"<narrative>", "", "error"} :
          response' =
              IF reply = "error"
              THEN [text |-> FallbackText(payload), provider |-> "template-fallback"]
              ELSE [text |-> OrElse(reply, payload.result), provider |-> "openai-compatible"]
    /\ npc' = "returned"
    /\ UNCHANGED <<svars, OPENAI_API_KEY, OPENAI_BASE_URL, payload, client, messages>>

NarrateInit ==
    /\ Locals
    /\ args = Args(1, 1, DefaultMargin, DefaultGap, FALSE, DefaultDedupeHamming, "none")
    /\ img = {Black} /\ width = 1 /\ height = 1
    /\ OPENAI_API_KEY \in {"", "sk-key"}
    /\ OPENAI_BASE_URL \in {"", "http://llm.local/v1"}
    /\ payload \in Payloads
    /\ npc = "request"
    /\ client = <<>> /\ messages = <<>> /\ response = NoResponse

NarrateNext == Request \/ Import \/ Construct \/ Prompt \/ Call

NarrateSpec == NarrateInit /\ [][NarrateNext]_vars

(***************************************************************************)
(* Notions the claims are stated with, defined apart from the code.        *)
(***************************************************************************)
Rows == args.rows
Cols == args.cols
Accounted == written + skipped_empty + skipped_duplicate + skipped_by_preset
InFlight == pc \in {"tile", "save", "failed"}
Degenerate == pc # "start" /\ (cell_w <= 0 \/ cell_h <= 0)
PresetOn == args.preset = "officers_4x6"
DedupeOn == ~args.no_dedupe

\* the i-th cell (from 0) of a row-major walk
RowMajor(i) == <<i \div Cols, i % Cols>>

\* number of bit positions in which two fingerprints differ
BitAt(n, i) == (n \div (2 ^ i)) % 2
Distance(a, b) == Cardinality({i \in 0 .. (HashBits - 1) : BitAt(a, i) # BitAt(b, i)})

\* the table's entry for a 1-based position, None when it has none
TableName(row, col) ==
    IF <<row, col>> \in DOMAIN OFFICER_PRESET_4X6 THEN OFFICER_PRESET_4X6[<<row, col>>] ELSE None

\* two half-open boxes <<left, upper, right, lower>> share a pixel
Overlap(a, b) == a[1] < b[3] /\ b[1] < a[3] /\ a[2] < b[4] /\ b[2] < a[4]
Inside(b) == 0 <= b[1] /\ b[3] <= width /\ 0 <= b[2] /\ b[4] <= height
Cells == (0 .. (Rows - 1)) \X (0 .. (Cols - 1))

(***************************************************************************)
(* C1: when the computed cell width or height is <= 0 the run ends in a    *)
(* configuration error before any cell is cropped: no crop, no file, no    *)
(* counter incremented.  The script validates nothing: the statement is    *)
(* violated by the first crop.                                             *)
(***************************************************************************)
C1_ConfigErrorBeforeCrop ==
    Degenerate => /\ crops = 0
                  /\ pc \notin {"tile", "save"}
                  /\ Accounted = 0
                  /\ files = {} /\ kept_hashes = <<>>

(***************************************************************************)
(* C2: narrate never raises to its caller: for every payload and on every  *)
(* failure path (no credential, the backing client cannot be imported or   *)
(* constructed, the backing call fails) it returns a response whose text   *)
(* is a template of the payload.  The import and the construction of the   *)
(* client stand outside the try: their exceptions reach the caller.        *)
(***************************************************************************)
C2_NarrateNeverRaises ==
    /\ npc # "raised"
    /\ npc = "returned" =>
          /\ response.text # None
          /\ response.provider \in {"template", "template-fallback"} =>
                response.text \in {TemplateText(payload), FallbackText(payload)}

(***************************************************************************)
(* C3: the cells are entered once each in row-major order, every finished  *)
(* cell has incremented exactly one counter, and at the summary the four   *)
(* counters add up to rows * cols.                                         *)
(***************************************************************************)
C3_EveryCellAccounted ==
    /\ \A i \in 1 .. Len(visited) : visited[i] = RowMajor(i - 1)
    /\ Len(visited) <= Rows * Cols
    /\ Accounted = IF InFlight THEN Len(visited) - 1 ELSE Len(visited)
    /\ pc \in {"summary", "done"} => Accounted = Rows * Cols
    /\ pc = "done" => stdout[1] + stdout[3] + stdout[4] + stdout[5] = Rows * Cols

C3_Witness ==
    /\ pc = "done"
    /\ written > 0 /\ skipped_empty > 0 /\ skipped_duplicate > 0 /\ skipped_by_preset > 0

(***************************************************************************)
(* C4: no two written tiles of a run share a filename, the used-name set   *)
(* holds exactly the written names, and every written file is still on     *)
(* disk with the image of its own cell (never overwritten by a later one). *)
(***************************************************************************)
C4_NoSharedFilename ==
    /\ \A i, j \in 1 .. Len(records) :
          i # j => records[i].filename # records[j].filename
    /\ {records[i].filename : i \in 1 .. Len(records)} = used_names
    /\ Cardinality(files) = Len(records)
    /\ \A i \in 1 .. Len(records) :
          \E f \in files : /\ f.name = records[i].filename \o ".png"
                           /\ dhash(f.image) = records[i].hash

C4_Witness ==
    /\ ~PresetOn
    /\ Len(records) >= 3
    /\ records[1].filename = "portrait_01"
    /\ records[3].filename = "portrait_04"

(***************************************************************************)
(* C5: with dedupe enabled a non-empty tile is skipped as a duplicate if   *)
(* and only if some kept fingerprint is within the threshold of its own,   *)
(* the threshold included.                                                 *)
(***************************************************************************)
C5_DuplicateIffWithinThreshold ==
    DedupeOn =>
        /\ outcome = "duplicate" =>
              /\ ~is_empty_tile(tile, args.empty_threshold)
              /\ \E i \in 1 .. Len(kept_hashes) :
                    Distance(kept_hashes[i], dhash(tile)) <= args.dedupe_hamming
        /\ (pc = "save" \/ outcome = "collision") =>
              \A i \in 1 .. Len(kept_hashes) :
                  Distance(kept_hashes[i], dhash(tile)) > args.dedupe_hamming
        /\ outcome = "written" =>
              \A i \in 1 .. (Len(kept_hashes) - 1) :
                  Distance(kept_hashes[i], dhash(tile)) > args.dedupe_hamming

\* a duplicate found exactly on the boundary
C5_Witness ==
    /\ DedupeOn /\ args.dedupe_hamming >= 1
    /\ outcome = "duplicate"
    /\ \A i \in 1 .. Len(kept_hashes) :
          Distance(kept_hashes[i], dhash(tile)) >= args.dedupe_hamming
    /\ written = 1 /\ skipped_duplicate = 1

(***************************************************************************)
(* C6: for a valid grid configuration (rows, cols >= 1, margin, gap >= 0,  *)
(* cell width and height > 0) the crop boxes of all cells lie inside the   *)
(* sheet and no two of them overlap.                                       *)
(***************************************************************************)
ValidGrid ==
    /\ pc # "start"
    /\ Rows >= 1 /\ Cols >= 1 /\ args.margin >= 0 /\ args.gap >= 0
    /\ cell_w > 0 /\ cell_h > 0

C6_BoxesDisjointInsideSheet ==
    ValidGrid =>
        /\ \A p \in Cells : Inside(CropBox(p[1], p[2]))
        /\ \A p, q \in Cells : p # q => ~Overlap(CropBox(p[1], p[2]), CropBox(q[1], q[2]))

\* a 2 x 2 grid with margin and gap whose division leaves a remainder
C6_Witness ==
    /\ ValidGrid /\ pc = "done" /\ crops = 4
    /\ Rows = 2 /\ Cols = 2 /\ args.margin = 1 /\ args.gap = 1
    /\ 2 * args.margin + args.gap + 2 * cell_w < width
    /\ 2 * args.margin + args.gap + 2 * cell_h = height

(***************************************************************************)
(* C7: under the officer preset a cell that the table lacks or excludes is *)
(* skipped: counted as skipped-by-preset, nothing cropped or written, kept *)
(* fingerprints and used names untouched; every written tile carries the   *)
(* table's name for its position.                                          *)
(***************************************************************************)
C7_SkipStep ==
    (pc = "loop" /\ PresetOn /\ TableName(r + 1, c + 1) = None) =>
        /\ skipped_by_preset' = skipped_by_preset + 1
        /\ UNCHANGED <<kept_hashes, used_names, files, written, crops, skipped_empty,
                       skipped_duplicate>>
        /\ pc' \in {"loop", "summary"}

C7_Named ==
    PresetOn =>
        /\ \A i \in 1 .. Len(records) :
              /\ TableName(records[i].row, records[i].col) # None
              /\ records[i].filename = TableName(records[i].row, records[i].col)
        /\ \A f \in files : \E p \in DOMAIN OFFICER_PRESET_4X6 :
              f.name = OFFICER_PRESET_4X6[p] \o ".png"
        /\ skipped_by_preset =
              Cardinality({i \in 1 .. Len(visited) :
                              TableName(visited[i][1] + 1, visited[i][2] + 1) = None})

\* C7: every step from a cell the preset lacks or excludes is such a skip, and in
\* every state the written tiles carry the table's names
C7_PresetSkipsAndNames == [][C7_SkipStep]_vars /\ []C7_Named

\* the excluded slot (2, 6) has just been skipped and (1, 1) was written as dong_zhuo
C7_Witness ==
    /\ PresetOn
    /\ outcome = "excluded" /\ visited[Len(visited)] = <<1, 5>>
    /\ Len(records) >= 2
    /\ records[1].filename = "dong_zhuo" /\ records[1].row = 1 /\ records[1].col = 1
    /\ \A f \in files : f.name # "portrait_13.png"

(***************************************************************************)
(* C8 as stated: the resolved name is in the used-name set before the      *)
(* write is attempted, so it is there in the state where the write failed. *)
(***************************************************************************)
C8_NameAddedBeforeWrite ==
    (pc = "save" \/ outcome = "save_error") => filename \in used_names

(***************************************************************************)
(* C8 amended: the resolved name is added to the used-name set only after  *)
(* the write has succeeded: while the write is attempted and in the state  *)
(* where it failed the set does not hold the name, and every name in the   *)
(* set has its file in the output directory.                               *)
(***************************************************************************)
C8_NameAddedAfterWrite ==
    /\ (pc = "save" \/ outcome = "save_error") => filename \notin used_names
    /\ \A n \in used_names : \E f \in files : f.name = n \o ".png"

\* a write has failed after an earlier tile of the run was written
C8_Witness ==
    /\ pc = "failed" /\ outcome = "save_error"
    /\ used_names # {} /\ filename \notin used_names

(***************************************************************************)
(* C9: with dedupe disabled no cell is ever skipped as a duplicate, while  *)
(* the fingerprint of every written tile is still appended to the kept     *)
(* collection.                                                             *)
(***************************************************************************)
C9_NoDedupeNeverSkips ==
    args.no_dedupe =>
        /\ skipped_duplicate = 0
        /\ outcome # "duplicate"
        /\ Len(kept_hashes) = written
        /\ Len(records) = written
        /\ \A i \in 1 .. Len(records) : kept_hashes[i] = records[i].hash
        /\ outcome = "written" => kept_hashes[Len(kept_hashes)] = dhash(tile)

\* two tiles with the same fingerprint were both written
C9_Witness ==
    /\ args.no_dedupe /\ pc = "done"
    /\ written >= 2
    /\ Distance(kept_hashes[1], kept_hashes[2]) = 0

(***************************************************************************)
(* C10: with dedupe enabled the kept fingerprints only grow by appending,  *)
(* there is one per written tile, and any two of them differ in more bits  *)
(* than the threshold.                                                     *)
(***************************************************************************)
C10_Kept ==
    DedupeOn =>
        /\ Len(kept_hashes) = written
        /\ \A i, j \in 1 .. Len(kept_hashes) :
              i # j => Distance(kept_hashes[i], kept_hashes[j]) > args.dedupe_hamming

C10_AppendStep ==
    DedupeOn =>
        /\ Len(kept_hashes') >= Len(kept_hashes)
        /\ Len(kept_hashes') <= Len(kept_hashes) + 1
        /\ SubSeq(kept_hashes', 1, Len(kept_hashes)) = kept_hashes
        /\ written' = written + (Len(kept_hashes') - Len(kept_hashes))

\* C10: every step appends at most one fingerprint and removes or replaces none,
\* and in every state the kept fingerprints are one per written tile and apart
C10_KeptAppendOnlyAndApart == [][C10_AppendStep]_vars /\ []C10_Kept

\* a repeat of the first kept tile was dropped after a second tile was kept
C10_Witness ==
    /\ DedupeOn /\ args.dedupe_hamming >= 1
    /\ Len(kept_hashes) = 2
    /\ outcome = "duplicate"
    /\ Distance(kept_hashes[1], dhash(tile)) = 0
    /\ Distance(kept_hashes[2], dhash(tile)) > args.dedupe_hamming

====
